---------------------------- MODULE Spec2Model ----------------------------
(***************************************************************************)
(* A model of Twitch.tvjs: the IRC line tokenizer and the text helpers of  *)
(* src/utils/Utils.js, the send path Utils.buildMessage, and the           *)
(* moderation actions Viewer.ban / Viewer.timeout of                       *)
(* src/structure/Viewer.js.                                                *)
(*                                                                         *)
(* A JavaScript string is a sequence of one-character strings.  Positions  *)
(* are 0-based, as in the source; the JS helpers below translate them to   *)
(* TLA+'s 1-based sequences.                                               *)
(***************************************************************************)
EXTENDS Integers, Sequences, FiniteSets, TLC

VARIABLES
    data,        \* unpack: the argument
    message,     \* unpack: the returned value (Pending before the call)
    cursors,     \* unpack: the cursor at the start of each params-loop pass
    str,         \* splitLine: the argument str
    len,         \* splitLine: the argument len
    splitResult, \* splitLine: the returned pair (<<>> before the call)
    fn,          \* properChannel / properUsername: which one is applied
    name,        \* properChannel / properUsername: the argument
    applied,     \* the results of applying fn once, twice, ...
    socket,      \* client.ws.socket: "null", "open" or "closed"
    sent,        \* the lines handed to client.ws.send, in order
    timers,      \* the pending setTimeout callbacks
    listeners,   \* the listeners registered with client.ws.on, in order
    calls,       \* the Viewer.ban / Viewer.timeout calls made so far
    emitted,     \* the events emitted with client.emit, in order
    acks,        \* the events received from the socket, in order
    chain        \* the content of each buildMessage invocation, in order

vars == <<data, message, cursors, str, len, splitResult, fn, name, applied,
          socket, sent, timers, listeners, calls, emitted, acks, chain>>

unpackVars == <<data, message, cursors>>
splitVars  == <<str, len, splitResult>>
canonVars  == <<fn, name, applied>>
clientVars == <<socket, sent, timers, listeners, calls, emitted, acks, chain>>

-----------------------------------------------------------------------------
(* Bounds of the model.                                                    *)

MaxLineLen == 6
MaxStrLen == 5
MaxSplitLen == 6
MaxNameLen == 3
MaxApplications == 2
MaxBlocks == 2
MaxSlack == 1
MaxCalls == 2
MaxEvents == 2

-----------------------------------------------------------------------------
(* JavaScript's String methods, as the source uses them.                   *)

NaN == -1

CharCode(c) ==
    CASE c = " " -> 32
      [] c = "#" -> 35
      [] c = "/" -> 47
      [] c = ":" -> 58
      [] c = ";" -> 59
      [] c = "=" -> 61
      [] c = "@" -> 64
      [] c = "A" -> 65
      [] c = "a" -> 97
      [] c = "b" -> 98
      [] OTHER   -> 120

\* s.charCodeAt(i): NaN past the end of the string
charCodeAt(s, i) ==
    IF i >= 0 /\ i < Len(s) THEN CharCode(s[i + 1]) ELSE NaN

\* s.indexOf(c, from): the first index >= from holding c, or -1
indexOf(s, c, from) ==
    LET hits == {i \in from..(Len(s) - 1) : s[i + 1] = c}
    IN  IF hits = {} THEN -1 ELSE CHOOSE i \in hits : \A j \in hits : i <= j

\* s.lastIndexOf(c): the last index holding c, or -1
lastIndexOf(s, c) ==
    LET hits == {i \in 0..(Len(s) - 1) : s[i + 1] = c}
    IN  IF hits = {} THEN -1 ELSE CHOOSE i \in hits : \A j \in hits : i >= j

Clamp(i, n) == IF i < 0 THEN 0 ELSE IF i > n THEN n ELSE i

\* s.slice(a, b) for a, b >= 0 (the source never passes a negative index)
slice(s, a, b) ==
    LET lo == Clamp(a, Len(s))
        hi == Clamp(b, Len(s))
    IN  SubSeq(s, lo + 1, hi)

\* s.slice(a)
sliceFrom(s, a) == slice(s, a, Len(s))

\* s.substring(a, b): both ends clamped to the string, swapped when a > b
substring(s, a, b) ==
    LET x == Clamp(a, Len(s))
        y == Clamp(b, Len(s))
    IN  IF x <= y THEN SubSeq(s, x + 1, y) ELSE SubSeq(s, y + 1, x)

\* s.substring(a)
substringFrom(s, a) == substring(s, a, Len(s))

\* s.split(c): the pieces between the occurrences of c (always one at least)
RECURSIVE split(_, _)
split(s, c) ==
    LET i == indexOf(s, c, 0)
    IN  IF i = -1 THEN <<s>>
        ELSE <<slice(s, 0, i)>> \o split(sliceFrom(s, i + 1), c)

\* s.toLowerCase() on the model's alphabet
toLowerCase(s) == [i \in 1..Len(s) |-> IF s[i] = "A" THEN "a" ELSE s[i]]

-----------------------------------------------------------------------------
(* Utils.unpack                                                            *)

Pending == [state |-> "pending"]
Null    == [state |-> "null"]

\* the boolean true stored for a tag without a value
TagTrue == <<"true">>
\* message.prefix = null
NoPrefix == <<"null">>

\* an if in the place of the while: one space skipped at most
skipSpaces_once(d, position) ==
    IF charCodeAt(d, position) = 32 THEN position + 1 ELSE position

\* while (data.charCodeAt(position) === 32) position++
RECURSIVE skipSpaces(_, _)
skipSpaces(d, position) ==
    IF charCodeAt(d, position) = 32 THEN skipSpaces(d, position + 1)
    ELSE position

\* const pair = tag.split('='); message.tags[pair[0]] = pair[1] || true
tagKey(tag) == split(tag, "=")[1]

tagValue(tag) ==
    LET pair == split(tag, "=")
    IN  IF Len(pair) >= 2 /\ pair[2] # <<>> THEN pair[2] ELSE TagTrue

\* the for loop over rawTags: later entries overwrite earlier ones
RECURSIVE assignTags(_, _, _)
assignTags(rawTags, i, tags) ==
    IF i > Len(rawTags) THEN tags
    ELSE LET key == tagKey(rawTags[i])
             val == tagValue(rawTags[i])
         IN  assignTags(rawTags, i + 1,
                 [k \in (DOMAIN tags) \cup {key} |->
                     IF k = key THEN val ELSE tags[k]])

NoTags == [k \in {} |-> TagTrue]

\* a colon that is never recognised (compared with the wrong char code)
isTrailing_wrongCode(d, position) == charCodeAt(d, position) = 59

\* if (data.charCodeAt(position) === 58): a trailing parameter starts here
isTrailing(d, position) == charCodeAt(d, position) = 58

\* the while loop over the parameters: each pass's cursor and pushed text
RECURSIVE paramsLoop(_, _)
paramsLoop(d, position) ==
    IF ~(position < Len(d)) THEN <<>>
    ELSE LET nextspace == indexOf(d, " ", position)
         IN  IF isTrailing(d, position)
             THEN <<[at |-> position, text |-> sliceFrom(d, position + 1)]>>
             ELSE IF nextspace # -1
             THEN <<[at |-> position, text |-> slice(d, position, nextspace)]>>
                  \o paramsLoop(d, skipSpaces(d, nextspace + 1))
             ELSE <<[at |-> position, text |-> sliceFrom(d, position)]>>

\* an off-by-one in the test for a remaining command
hasCommand_offByOne(d, position) == Len(d) >= position

\* if (data.length > position): something is left for the command
hasCommand(d, position) == Len(d) > position

\* unpack up to and including the command: the tags, the prefix, the command
\* and the cursor at which the params loop starts (-1: returned before it)
header(d) ==
    LET hasTags  == charCodeAt(d, 0) = 64
        tagSpace == indexOf(d, " ", 0)
    IN
    IF hasTags /\ tagSpace = -1 THEN Null
    ELSE
    LET tags == IF hasTags
                THEN assignTags(split(slice(d, 1, tagSpace), ";"), 1, NoTags)
                ELSE NoTags
        p1 == skipSpaces(d, IF hasTags THEN tagSpace + 1 ELSE 0)
        hasPrefix == charCodeAt(d, p1) = 58
        prefSpace == indexOf(d, " ", p1)
    IN
    IF hasPrefix /\ prefSpace = -1 THEN Null
    ELSE
    LET prefix == IF hasPrefix THEN slice(d, p1 + 1, prefSpace) ELSE NoPrefix
        p2 == IF hasPrefix THEN skipSpaces(d, prefSpace + 1) ELSE p1
        nextspace == indexOf(d, " ", p2)
    IN
    IF nextspace = -1
    THEN IF hasCommand(d, p2)
         THEN [state |-> "message", raw |-> d, tags |-> tags, prefix |-> prefix,
               command |-> sliceFrom(d, p2), position |-> -1]
         ELSE Null
    ELSE [state |-> "message", raw |-> d, tags |-> tags, prefix |-> prefix,
          command |-> slice(d, p2, nextspace),
          position |-> skipSpaces(d, nextspace + 1)]

loopOf(d) ==
    LET h == header(d)
    IN  IF h.state = "message" /\ h.position # -1
        THEN paramsLoop(d, h.position) ELSE <<>>

unpack(d) ==
    LET h == header(d)
        l == loopOf(d)
    IN  IF h.state = "null" THEN Null
        ELSE [state |-> "message", raw |-> h.raw, tags |-> h.tags,
              prefix |-> h.prefix, command |-> h.command,
              params |-> [i \in 1..Len(l) |-> l[i].text]]

LineChars == {" ", ":", "@", "=", ";", "a"}

\* the strings over chars of length n at most
StringsUpTo(chars, n) == UNION {[1..k -> chars] : k \in 0..n}

Lines == StringsUpTo(LineChars, MaxLineLen)

InitUnpack ==
    /\ data \in Lines
    /\ message = Pending
    /\ cursors = <<>>
    /\ str = <<>> /\ len = 1 /\ splitResult = <<>>
    /\ fn = "properChannel" /\ name = <<>> /\ applied = <<>>
    /\ socket = "null" /\ sent = <<>> /\ timers = <<>> /\ listeners = <<>>
    /\ calls = <<>> /\ emitted = <<>> /\ acks = <<>> /\ chain = <<>>

Unpack ==
    /\ message = Pending
    /\ message' = unpack(data)
    /\ cursors' = [i \in 1..Len(loopOf(data)) |-> loopOf(data)[i].at]
    /\ UNCHANGED <<data, splitVars, canonVars, clientVars>>

NextUnpack == Unpack

SpecUnpack == InitUnpack /\ [][NextUnpack]_vars

-----------------------------------------------------------------------------
(* The claims about Utils.unpack, stated on 1-based lines.                 *)

IsAt(l, i, c) == i >= 1 /\ i <= Len(l) /\ l[i] = c

HasSpaceFrom(l, p) == \E i \in p..Len(l) : l[i] = " "

\* the first space at or after p (there is one)
FirstSpaceFrom(l, p) ==
    CHOOSE i \in p..Len(l) : l[i] = " " /\ \A j \in p..(i - 1) : l[j] # " "

\* the first place at or after p that holds no space (Len(l) + 1: none)
AfterSpaces(l, p) ==
    CHOOSE q \in p..(Len(l) + 1) :
        /\ \A r \in p..(q - 1) : l[r] = " "
        /\ (q = Len(l) + 1 \/ l[q] # " ")

\* the cursor after the optional tag block and the spaces that follow it
AfterTagBlock(l) ==
    IF IsAt(l, 1, "@") THEN AfterSpaces(l, FirstSpaceFrom(l, 1) + 1)
    ELSE AfterSpaces(l, 1)

\* the cursor after the optional prefix and the spaces that follow it
AfterPrefix(l) ==
    LET c == AfterTagBlock(l)
    IN  IF IsAt(l, c, ":") THEN AfterSpaces(l, FirstSpaceFrom(l, c) + 1)
        ELSE c

UnterminatedTagBlock(l) == IsAt(l, 1, "@") /\ ~HasSpaceFrom(l, 1)

UnterminatedPrefix(l) ==
    /\ ~UnterminatedTagBlock(l)
    /\ IsAt(l, AfterTagBlock(l), ":")
    /\ ~HasSpaceFrom(l, AfterTagBlock(l))

MissingCommand(l) ==
    /\ ~UnterminatedTagBlock(l)
    /\ ~UnterminatedPrefix(l)
    /\ AfterPrefix(l) > Len(l)

\* C1: unpack returns a value for every line (it has no throwing step), and
\* the value is null exactly when the tag block is unterminated, the prefix
\* is unterminated, or nothing is left for the command; otherwise it is a
\* message.
C1_MalformedExactly ==
    message # Pending =>
        /\ message.state \in {"null", "message"}
        /\ message.state = "message" => message.raw = data
        /\ message = Null <=>
              \/ UnterminatedTagBlock(data)
              \/ UnterminatedPrefix(data)
              \/ MissingCommand(data)

\* a line with a tag block whose prefix is unterminated was tokenized
C1_Witness ==
    /\ message = Null
    /\ IsAt(data, 1, "@")
    /\ UnterminatedPrefix(data)

\* C2: in the params loop a pass whose cursor is on ':' pushes the rest of
\* the line after the colon, verbatim, and is the last pass; every parameter
\* pushed before it is non-empty and holds no space.
C2_TrailingParam ==
    message.state = "message" =>
        /\ Len(cursors) = Len(message.params)
        /\ \A i \in 1..Len(cursors) :
              IsAt(data, cursors[i] + 1, ":") =>
                  /\ i = Len(message.params)
                  /\ message.params[i] = SubSeq(data, cursors[i] + 2, Len(data))
                  /\ \A j \in 1..(i - 1) :
                        /\ message.params[j] # <<>>
                        /\ \A k \in 1..Len(message.params[j]) :
                              message.params[j][k] # " "

\* a trailing parameter holding a space follows an ordinary parameter
C2_Witness ==
    /\ message.state = "message"
    /\ Len(message.params) >= 2
    /\ IsAt(data, cursors[Len(cursors)] + 1, ":")
    /\ \E k \in 1..Len(message.params[Len(message.params)]) :
          message.params[Len(message.params)][k] = " "

\* the entries of the tag block: the pieces between '@' and the first space
TagEntries(l) == split(SubSeq(l, 2, FirstSpaceFrom(l, 1) - 1), ";")

\* an entry's key and value when it is split once, at its first '='
KeyOf(entry) ==
    IF \E i \in 1..Len(entry) : entry[i] = "="
    THEN SubSeq(entry, 1,
             (CHOOSE i \in 1..Len(entry) :
                 entry[i] = "=" /\ \A j \in 1..(i - 1) : entry[j] # "=") - 1)
    ELSE entry

ValueOf(entry) ==
    LET rest == SubSeq(entry, Len(KeyOf(entry)) + 2, Len(entry))
    IN  IF rest # <<>> THEN rest ELSE TagTrue

\* C3: every tag entry (whose key no other entry repeats) is stored under
\* the text before its first '=' with the whole text after that '=' as its
\* value, or true when that text is empty.
C3_SplitOnceAtFirstEquals ==
    (message.state = "message" /\ IsAt(data, 1, "@")) =>
        LET entries == TagEntries(data)
        IN  \A i \in 1..Len(entries) :
                (\A j \in 1..Len(entries) :
                    j # i => KeyOf(entries[j]) # KeyOf(entries[i]))
                => /\ KeyOf(entries[i]) \in DOMAIN message.tags
                   /\ message.tags[KeyOf(entries[i])] = ValueOf(entries[i])

\* C4: the command of a returned message is non-empty and holds no space.
C4_CommandNonEmpty ==
    message.state = "message" =>
        /\ message.command # <<>>
        /\ \A i \in 1..Len(message.command) : message.command[i] # " "

\* a prefix followed by two spaces, and a space after the command
C4_Witness ==
    /\ data = <<":", "a", " ", " ", "a", " ">>
    /\ message.state = "message"
    /\ message.command = <<"a">>

-----------------------------------------------------------------------------
(* Utils.splitLine                                                         *)

\* the last space searched in the whole string, not in its first len chars
splitWindow_whole(s, n) == s

\* str.substring(0, len): the window the last space is searched in
splitWindow(s, n) == substring(s, 0, n)

splitLine(s, n) ==
    LET found     == lastIndexOf(splitWindow(s, n), " ")
        lastSpace == IF found = -1 THEN n - 1 ELSE found
    IN  <<substring(s, 0, lastSpace), substringFrom(s, lastSpace + 1)>>

SplitChars == {" ", "a", "b"}

InitSplit ==
    /\ str \in StringsUpTo(SplitChars, MaxStrLen)
    /\ len \in 1..MaxSplitLen
    /\ splitResult = <<>>
    /\ data = <<>> /\ message = Pending /\ cursors = <<>>
    /\ fn = "properChannel" /\ name = <<>> /\ applied = <<>>
    /\ socket = "null" /\ sent = <<>> /\ timers = <<>> /\ listeners = <<>>
    /\ calls = <<>> /\ emitted = <<>> /\ acks = <<>> /\ chain = <<>>

SplitLine ==
    /\ splitResult = <<>>
    /\ splitResult' = splitLine(str, len)
    /\ UNCHANGED <<str, len, unpackVars, canonVars, clientVars>>

NextSplit == SplitLine

SpecSplit == InitSplit /\ [][NextSplit]_vars

\* C5: the head returned by splitLine(s, n), n > 0, has length at most n.
C5_HeadWithinLimit ==
    splitResult # <<>> => Len(splitResult[1]) <= len

\* a string longer than the limit, with a space in its first len characters
\* and a later space too, was split
C5_Witness ==
    /\ splitResult # <<>>
    /\ Len(str) > len + 1
    /\ \E i \in 1..len : str[i] = " "
    /\ \E i \in (len + 1)..Len(str) : str[i] = " "

\* C6: a string no longer than the limit comes back whole, with an empty
\* tail.
C6_ShortStringUnchanged ==
    (splitResult # <<>> /\ Len(str) <= len) => splitResult = <<str, <<>>>>

-----------------------------------------------------------------------------
(* Utils.properChannel and Utils.properUsername                            *)

\* str ? str : '' leaves a string as it is (the empty string is falsy and
\* is replaced by the empty string)
properChannel(s) ==
    LET channel == toLowerCase(s)
    IN  IF Len(channel) >= 1 /\ channel[1] = "#" THEN channel
        ELSE <<"#">> \o channel

properUsername(s) ==
    LET username == toLowerCase(s)
    IN  IF Len(username) >= 1 /\ username[1] = "#" THEN sliceFrom(username, 1)
        ELSE username

NameChars == {"#", "a", "A"}

InitCanon ==
    /\ fn \in {"properChannel", "properUsername"}
    /\ name \in StringsUpTo(NameChars, MaxNameLen)
    /\ applied = <<>>
    /\ data = <<>> /\ message = Pending /\ cursors = <<>>
    /\ str = <<>> /\ len = 1 /\ splitResult = <<>>
    /\ socket = "null" /\ sent = <<>> /\ timers = <<>> /\ listeners = <<>>
    /\ calls = <<>> /\ emitted = <<>> /\ acks = <<>> /\ chain = <<>>

\* the argument of the next application: the name, then the last result
NextArgument == IF applied = <<>> THEN name ELSE applied[Len(applied)]

ApplyChannel ==
    /\ fn = "properChannel"
    /\ Len(applied) < MaxApplications
    /\ applied' = Append(applied, properChannel(NextArgument))
    /\ UNCHANGED <<fn, name, unpackVars, splitVars, clientVars>>

ApplyUsername ==
    /\ fn = "properUsername"
    /\ Len(applied) < MaxApplications
    /\ applied' = Append(applied, properUsername(NextArgument))
    /\ UNCHANGED <<fn, name, unpackVars, splitVars, clientVars>>

NextCanon == ApplyChannel \/ ApplyUsername

SpecCanon == InitCanon /\ [][NextCanon]_vars

\* C7: properChannel and properUsername are idempotent: a second
\* application returns what the first returned.
C7_Idempotent ==
    \A i \in 2..Len(applied) : applied[i] = applied[1]

-----------------------------------------------------------------------------
(* Utils.buildMessage: the send path                                       *)

\* content.length >= 500 and splitLine(content, 500)
ContentLimit == 500

Str_PRIVMSG == <<"P", "R", "I", "V", "M", "S", "G", " ">>

\* `PRIVMSG ${channel} :${content}`
privmsg(channel, content) == Str_PRIVMSG \o channel \o <<" ", ":">> \o content

\* the remainder re-sent whole: the split head is not cut off it
remainder_whole(content, msg) == content

\* msg[1], the content of the delayed re-invocation
remainder(content, msg) == msg[2]

\* One invocation of buildMessage(client, content, channel): what it returns
\* ("undefined" or a "Message"), the lines it sends, the timers it sets and
\* the listeners it registers.
buildMessage(content, channel) ==
    IF socket # "open"
    THEN [ret |-> "undefined", sends |-> <<>>, timers |-> <<>>,
          listeners |-> <<>>,
          invoked |-> [length |-> Len(content), scheduled |-> FALSE,
                       returned |-> "undefined"]]
    ELSE LET long == Len(content) >= ContentLimit
             msg  == splitLine(content, ContentLimit)
             head == IF long THEN msg[1] ELSE content
         IN  [ret |-> "Message",
              sends |-> <<privmsg(channel, head)>>,
              timers |-> IF long
                         THEN <<[kind |-> "buildMessage",
                                 content |-> remainder(content, msg),
                                 channel |-> channel,
                                 from |-> Len(content)]>>
                         ELSE <<>>,
              listeners |-> <<[event |-> "MESSAGE_DUPLICATE_ERROR", call |-> 0]>>,
              invoked |-> [length |-> Len(content), scheduled |-> long,
                           returned |-> "Message"]]

RemoveAt(q, i) == SubSeq(q, 1, i - 1) \o SubSeq(q, i + 1, Len(q))

\* the contents sent: a length, and the places of its spaces
Content(n, spaces) == [i \in 1..n |-> IF i \in spaces THEN " " ELSE "x"]

ContentLens ==
    (0..MaxSlack) \cup
    {m * ContentLimit + d : m \in 1..MaxBlocks, d \in (-MaxSlack)..MaxSlack}

SpaceMarks == {1, 2, ContentLimit - 1, ContentLimit, ContentLimit + 1}

SpaceSets ==
    {{}} \cup {{p} : p \in SpaceMarks}
         \cup {{p, q} : p \in SpaceMarks, q \in {250, 750}}
         \cup {{i \in 1..(MaxBlocks * ContentLimit + MaxSlack) : i % 100 = 0}}

Contents == {Content(n, sp) : n \in ContentLens, sp \in SpaceSets}

Channel == <<"#", "a">>

InitClient ==
    /\ socket \in {"null", "open", "closed"}
    /\ sent = <<>> /\ timers = <<>> /\ listeners = <<>>
    /\ calls = <<>> /\ emitted = <<>> /\ acks = <<>> /\ chain = <<>>
    /\ data = <<>> /\ message = Pending /\ cursors = <<>>
    /\ str = <<>> /\ len = 1 /\ splitResult = <<>>
    /\ fn = "properChannel" /\ name = <<>> /\ applied = <<>>

InitSend == InitClient /\ socket = "open"

\* the first call buildMessage(client, content, channel)
BuildMessage ==
    /\ chain = <<>>
    /\ \E content \in Contents :
          LET r == buildMessage(content, Channel)
          IN  /\ sent' = sent \o r.sends
              /\ timers' = timers \o r.timers
              /\ listeners' = listeners \o r.listeners
              /\ chain' = Append(chain, r.invoked)
    /\ UNCHANGED <<socket, calls, emitted, acks,
                   unpackVars, splitVars, canonVars>>

\* the 350 ms timer of buildMessage fires: the remainder is sent (pending
\* timers fire in any order: every order the delays allow is among them)
FireBuildMessage ==
    \E i \in 1..Len(timers) :
        /\ timers[i].kind = "buildMessage"
        /\ LET r == buildMessage(timers[i].content, timers[i].channel)
           IN  /\ sent' = sent \o r.sends
               /\ timers' = RemoveAt(timers, i) \o r.timers
               /\ listeners' = listeners \o r.listeners
               /\ chain' = Append(chain, r.invoked)
        /\ UNCHANGED <<socket, calls, emitted, acks,
                       unpackVars, splitVars, canonVars>>

\* the socket is lost, and opened again
SocketClose ==
    /\ socket = "open"
    /\ socket' = "closed"
    /\ UNCHANGED <<sent, timers, listeners, calls, emitted, acks, chain,
                   unpackVars, splitVars, canonVars>>

SocketOpen ==
    /\ socket # "open"
    /\ socket' = "open"
    /\ UNCHANGED <<sent, timers, listeners, calls, emitted, acks, chain,
                   unpackVars, splitVars, canonVars>>

NextSend == BuildMessage \/ FireBuildMessage \/ SocketClose \/ SocketOpen

SpecSend == InitSend /\ [][NextSend]_vars

\* C8: the chain of delayed re-invocations of buildMessage ends: a scheduled
\* re-invocation gets content strictly shorter than its caller's, a call with
\* content shorter than 500 characters schedules nothing, so the contents of
\* the chain decrease and the number of PRIVMSG lines sent is bounded by the
\* length of the first content.
C8_ChainTerminates ==
    /\ \A i \in 1..Len(timers) :
          timers[i].kind = "buildMessage" =>
              Len(timers[i].content) < timers[i].from
    /\ \A i \in 1..Len(chain) :
          chain[i].length < ContentLimit => ~chain[i].scheduled
    /\ \A i \in 2..Len(chain) : chain[i].length < chain[i - 1].length
    /\ Len(timers) <= 1
    /\ Len(sent) <= Len(chain)
    /\ chain # <<>> =>
          Len(chain) <= IF chain[1].length >= ContentLimit
                        THEN chain[1].length - ContentLimit + 2
                        ELSE 1

\* a content was sent in three lines, the socket open at each, and nothing
\* is scheduled any more
C8_Witness ==
    /\ Len(chain) >= 3
    /\ Len(sent) = Len(chain)
    /\ chain[Len(chain)].length < ContentLimit
    /\ timers = <<>>

-----------------------------------------------------------------------------
(* Viewer.ban and Viewer.timeout                                           *)

\* `${reason}` of a reason that was not given
Undefined == <<"u", "n", "d", "e", "f", "i", "n", "e", "d">>

Digits == <<"0", "1", "2", "3", "4", "5", "6", "7", "8", "9">>

\* Number.prototype.toString of a natural number
RECURSIVE toString(_)
toString(n) ==
    IF n < 10 THEN <<Digits[n + 1]>>
    ELSE toString(n \div 10) \o <<Digits[(n % 10) + 1]>>

\* `/ban ${this.username} ${reason}`
banText(username, reason) ==
    <<"/", "b", "a", "n", " ">> \o username \o <<" ">> \o reason

\* `/timeout ${this.username} ${time}`, time = Math.floor(time / 1000).toString()
timeoutText(username, time) ==
    <<"/", "t", "i", "m", "e", "o", "u", "t", " ">> \o username \o <<" ">>
        \o toString(time \div 1000)

\* the viewers of the client, by username; all in the one channel
Viewers == {<<"a">>, <<"b">>}

\* the reasons given: none, a short one, one that fills a line
Reasons == {Undefined, <<"x">>, Content(ContentLimit, {})}

\* the times given: the default and a shorter one
Times == {60000, 1500}

ErrorEvent(method) ==
    IF method = "ban" THEN "VIEWER_BAN_ERROR" ELSE "VIEWER_TIMEOUT_ERROR"

SuccessEvent(method) ==
    IF method = "ban" THEN "VIEWER_BAN_SUCCESS" ELSE "VIEWER_TIMEOUT_SUCCESS"

EmittedEvent(method) ==
    IF method = "ban" THEN "VIEWER_BAN" ELSE "VIEWER_TIMEOUT"

\* The executor of the promise of ban / timeout, with the text it sends:
\* buildMessage, the two listeners, the 200 ms timer.
moderate(method, viewer, text) ==
    LET r == buildMessage(text, Channel)
        c == Len(calls) + 1
    IN  [sent |-> sent \o r.sends,
         chain |-> Append(chain, r.invoked),
         listeners |-> listeners \o r.listeners \o
              <<[event |-> ErrorEvent(method), call |-> c],
                [event |-> SuccessEvent(method), call |-> c]>>,
         timers |-> timers \o r.timers \o <<[kind |-> "settle", call |-> c]>>,
         calls |-> Append(calls,
              [method |-> method, viewer |-> viewer, msg |-> r.ret,
               sent |-> r.ret = "Message", promise |-> "pending",
               fired |-> FALSE, threw |-> FALSE, settled |-> 0,
               errorSeen |-> FALSE, ownError |-> FALSE])]

\* viewer.ban(reason), reason a string or not given
Ban ==
    /\ Len(calls) < MaxCalls
    /\ \E viewer \in Viewers, reason \in Reasons :
          LET m == moderate("ban", viewer, banText(viewer, reason))
          IN  /\ sent' = m.sent /\ chain' = m.chain
              /\ listeners' = m.listeners /\ timers' = m.timers
              /\ calls' = m.calls
    /\ UNCHANGED <<socket, emitted, acks, unpackVars, splitVars, canonVars>>

\* viewer.timeout(time), time a number
Timeout ==
    /\ Len(calls) < MaxCalls
    /\ \E viewer \in Viewers, time \in Times :
          LET m == moderate("timeout", viewer, timeoutText(viewer, time))
          IN  /\ sent' = m.sent /\ chain' = m.chain
              /\ listeners' = m.listeners /\ timers' = m.timers
              /\ calls' = m.calls
    /\ UNCHANGED <<socket, emitted, acks, unpackVars, splitVars, canonVars>>

\* the listeners of an event run, in the order they were registered
RECURSIVE runListeners(_, _, _, _)
runListeners(event, about, i, st) ==
    IF i > Len(listeners) THEN st
    ELSE LET l == listeners[i]
             k == l.call
         IN  IF l.event # event THEN runListeners(event, about, i + 1, st)
             ELSE IF event \in {"VIEWER_BAN_ERROR", "VIEWER_TIMEOUT_ERROR"}
             \* (error) => msg = { error }
             THEN runListeners(event, about, i + 1,
                    [st EXCEPT !.calls[k].msg = "error",
                               !.calls[k].errorSeen = @ \/ ~st.calls[k].fired,
                               !.calls[k].ownError =
                                   @ \/ (about = k /\ ~st.calls[k].fired)])
             ELSE IF event \in {"VIEWER_BAN_SUCCESS", "VIEWER_TIMEOUT_SUCCESS"}
             \* () => this.client.emit(Events.VIEWER_BAN, this)
             THEN runListeners(event, about, i + 1,
                    [st EXCEPT !.emitted = Append(@,
                        [event |-> EmittedEvent(st.calls[k].method),
                         viewer |-> st.calls[k].viewer])])
             \* MESSAGE_DUPLICATE_ERROR: the listener returns an object
             ELSE runListeners(event, about, i + 1, st)

\* The socket delivers the server's answer to call `about`, a command that
\* was sent: client.ws emits the event.
Receive(event, about) ==
    /\ socket = "open"
    /\ Len(acks) < MaxEvents
    /\ calls[about].sent
    /\ LET st == runListeners(event, about, 1,
                     [calls |-> calls, emitted |-> emitted])
       IN  /\ calls' = st.calls
           /\ emitted' = st.emitted
    /\ acks' = Append(acks, [event |-> event, about |-> about])
    /\ UNCHANGED <<socket, sent, timers, listeners, chain,
                   unpackVars, splitVars, canonVars>>

ReceiveError ==
    \E about \in 1..Len(calls) :
        Receive(ErrorEvent(calls[about].method), about)

ReceiveSuccess ==
    \E about \in 1..Len(calls) :
        Receive(SuccessEvent(calls[about].method), about)

ReceiveDuplicate ==
    \E about \in 1..Len(calls) : Receive("MESSAGE_DUPLICATE_ERROR", about)

\* the 200 ms timer of ban / timeout fires
FireSettle ==
    \E i \in 1..Len(timers) :
        /\ timers[i].kind = "settle"
        /\ LET c == timers[i].call
               m == calls[c].msg
           IN  calls' = [calls EXCEPT
                  ![c].fired = TRUE,
                  \* msg.error of undefined: a TypeError, nothing is settled
                  ![c].threw = (m = "undefined"),
                  ![c].settled = IF m = "undefined" THEN @ ELSE @ + 1,
                  ![c].promise =
                      IF @ # "pending" THEN @
                      ELSE IF m = "Message" THEN "resolved"
                      ELSE IF m = "error" THEN "rejected"
                      ELSE "pending"]
        /\ timers' = RemoveAt(timers, i)
        /\ UNCHANGED <<socket, sent, listeners, emitted, acks, chain,
                       unpackVars, splitVars, canonVars>>

NextViewer ==
    \/ Ban
    \/ Timeout
    \/ ReceiveError
    \/ ReceiveSuccess
    \/ ReceiveDuplicate
    \/ FireSettle
    \/ FireBuildMessage
    \/ SocketClose
    \/ SocketOpen

SpecViewer == InitClient /\ [][NextViewer]_vars

\* C9: once its 200 ms timer has fired, the promise of a ban / timeout call
\* is settled, by one call of resolve or reject: resolved if no error event
\* of the action was received between the call and the timer, rejected
\* otherwise; before the timer it is pending.
C9_PromiseSettles ==
    \A c \in 1..Len(calls) :
        /\ ~calls[c].fired => calls[c].promise = "pending"
        /\ calls[c].fired =>
              /\ calls[c].settled = 1
              /\ calls[c].promise =
                    IF calls[c].errorSeen THEN "rejected" ELSE "resolved"

CountOf(q, event) == Cardinality({i \in 1..Len(q) : q[i].event = event})

\* C10: every success acknowledgement received makes the client emit the
\* action's event once, and a promise is rejected only after an error event
\* that belongs to its own call.
C10_OneEmitPerAck ==
    /\ \A method \in {"ban", "timeout"} :
          CountOf(emitted, EmittedEvent(method))
              = CountOf(acks, SuccessEvent(method))
    /\ \A c \in 1..Len(calls) :
          calls[c].promise = "rejected" => calls[c].ownError

=============================================================================
